---- MODULE Spec2Model ----
(***************************************************************************)
(* Model of streamlit_transaction_manager.py: a ledger of users and their  *)
(* credit/debit transactions kept in SQLite, an email+password login, and  *)
(* export_pdf, which computes the 13th-to-12th billing period of the       *)
(* current clock reading and aggregates the period's transactions.         *)
(*                                                                         *)
(* One step of the model is one run of the Streamlit script (the script is *)
(* re-run from the top on every widget interaction, with at most one       *)
(* button pressed), or one advance of the wall clock.                      *)
(*                                                                         *)
(* A datetime is a record [year, month, day, second, microsecond] where    *)
(* second counts the seconds since midnight.  A TEXT timestamp, as stored  *)
(* in the transactions table, is the isoformat() of a datetime: a sequence *)
(* of fixed-width fields whose fractional part is absent when the          *)
(* microsecond is 0.  Amounts are whole minor units.  The users.name and   *)
(* transactions.description columns are only printed and are left out.     *)
(***************************************************************************)
EXTENDS Integers, Sequences, FiniteSets, TLC

\* ------------------------------------------------------------------ bounds
MaxUserId == 2
MaxTxId == 2
MaxTick == 1
FirstYear == 2023
LastYear == 2025

\* --------------------------------------------------------------- constants
ADMIN_EMAIL == "admin@example.com"

Emails == {ADMIN_EMAIL, "user@example.com"}
Passwords == {"pw1", "pw2"}
Amounts == {1, 2}
Types == {"credit", "debit"}

\* The dates the clock visits when transactions are stored: the last day of
\* the cycle 2024-12-13..2025-01-12 and the first day of the next one.
ClockDates ==
  { [year |-> 2025, month |-> 1, day |-> 12],
    [year |-> 2025, month |-> 1, day |-> 13] }

VARIABLES
  db,        \* the SQLite database: users, transactions, AUTOINCREMENT counters
  email,     \* text input "Enter your email"
  password,  \* text input "Enter your password"
  now,       \* the wall clock read by datetime.now() / datetime.today()
  viewed,    \* id of the user whose transaction history the run displayed, 0 if none
  stmt,      \* the statement export_pdf rendered in the run, NoStmt if none
  call       \* the last call of a helper that writes the tables, with its arguments

vars == <<db, email, password, now, viewed, stmt, call>>

\* ---------------------------------------------------------------- calendar
IsLeap(y) == (y % 4 = 0) /\ ((y % 100 # 0) \/ (y % 400 = 0))

DaysInMonth(y, m) ==
  IF m = 2 THEN (IF IsLeap(y) THEN 29 ELSE 28)
  ELSE IF m \in {4, 6, 9, 11} THEN 30 ELSE 31

\* a day number past the end of its month carries into the following months
RECURSIVE Normalize(_)
Normalize(dt) ==
  IF dt.day <= DaysInMonth(dt.year, dt.month) THEN dt
  ELSE Normalize([dt EXCEPT
         !.day = @ - DaysInMonth(dt.year, dt.month),
         !.month = IF @ = 12 THEN 1 ELSE @ + 1,
         !.year = IF dt.month = 12 THEN @ + 1 ELSE @])

\* dt + timedelta(days=n), n >= 0
AddDays(dt, n) == Normalize([dt EXCEPT !.day = @ + n])

\* datetime.isoformat(): "YYYY-MM-DDTHH:MM:SS", followed by ".ffffff" only when
\* the microsecond is not 0
isoformat(dt) ==
  <<dt.year, dt.month, dt.day, dt.second>>
    \o (IF dt.microsecond = 0 THEN <<>> ELSE <<dt.microsecond>>)

\* SQLite's comparison of two TEXT values (BINARY collation): the first
\* differing position decides, and a proper prefix sorts first
RECURSIVE TextLeq(_, _)
TextLeq(a, b) ==
  IF a = <<>> THEN TRUE
  ELSE IF b = <<>> THEN FALSE
  ELSE IF Head(a) < Head(b) THEN TRUE
  ELSE IF Head(a) > Head(b) THEN FALSE
  ELSE TextLeq(Tail(a), Tail(b))

\* x BETWEEN lo AND hi
Between(x, lo, hi) == TextLeq(lo, x) /\ TextLeq(x, hi)

\* ------------------------------------------------------ the billing period
\* the January branch without the year rollover
bill_start_same_year(today) ==
  IF today.day >= 13 THEN [today EXCEPT !.day = 13]
  ELSE IF today.month = 1
       THEN [today EXCEPT !.month = 12, !.day = 13]
       ELSE [today EXCEPT !.month = @ - 1, !.day = 13]

bill_start(today) ==
  IF today.day >= 13 THEN [today EXCEPT !.day = 13]
  ELSE IF today.month = 1
       THEN [today EXCEPT !.year = @ - 1, !.month = 12, !.day = 13]
       ELSE [today EXCEPT !.month = @ - 1, !.day = 13]

next_month(bs) == (bs.month % 12) + 1

\* the end date without the year rollover after December
bill_end_same_year(bs) ==
  [year |-> bs.year, month |-> (bs.month % 12) + 1, day |-> 12,
   second |-> 0, microsecond |-> 0]

bill_end(bs) ==
  [year |-> bs.year + (IF next_month(bs) = 1 THEN 1 ELSE 0),
   month |-> next_month(bs), day |-> 12, second |-> 0, microsecond |-> 0]

\* the due date counted with the first day of the period as day 1
due_date_49(bs) == AddDays(bs, 49)

\* a due date one cycle length after the start
due_date_30(bs) == AddDays(bs, 30)

due_date(bs) == AddDays(bs, 50)

\* ------------------------------------------------------------ the database
NoUser == [id |-> 0, email |-> "", password |-> ""]

\* add_user: the INSERT fails with IntegrityError on a duplicate email
add_user(d, new_email, new_password) ==
  IF \E u \in d.users : u.email = new_email THEN d
  ELSE [d EXCEPT
         !.users = @ \cup {[id |-> d.user_seq + 1, email |-> new_email,
                            password |-> new_password]},
         !.user_seq = @ + 1]

\* the user's row deleted without the transactions
delete_user_no_cascade(d, user_id) ==
  [d EXCEPT !.users = {u \in @ : u.id # user_id}]

delete_user(d, user_id) ==
  [d EXCEPT !.users = {u \in @ : u.id # user_id},
            !.transactions = {t \in @ : t.user_id # user_id}]

authenticate_user(d, e, p) ==
  IF \E u \in d.users : u.email = e /\ u.password = p
  THEN CHOOSE u \in d.users : u.email = e /\ u.password = p
  ELSE NoUser

add_transaction(d, user_id, amount, type_, clock) ==
  [d EXCEPT
    !.transactions = @ \cup {[id |-> d.tx_seq + 1, user_id |-> user_id,
                              amount |-> amount, type |-> type_,
                              timestamp |-> isoformat(clock)]},
    !.tx_seq = @ + 1]

\* DELETE FROM transactions WHERE id = ?, without the owner check
delete_transaction_any_owner(d, user_id, transaction_id) ==
  [d EXCEPT !.transactions = {t \in @ : t.id # transaction_id}]

delete_transaction(d, user_id, transaction_id) ==
  [d EXCEPT !.transactions =
     {t \in @ : ~(t.id = transaction_id /\ t.user_id = user_id)}]

get_transactions(d, user_id) == {t \in d.transactions : t.user_id = user_id}

\* the rows of a result set in rowid order
RECURSIVE Rows(_)
Rows(S) ==
  IF S = {} THEN <<>>
  ELSE LET t == CHOOSE x \in S : \A y \in S : x.id <= y.id
       IN <<[amount |-> t.amount, type |-> t.type, timestamp |-> t.timestamp]>>
            \o Rows(S \ {t})

\* SELECT ... WHERE user_id = ? AND timestamp BETWEEN ? AND ?
period_transactions(d, user_id, bs, be) ==
  Rows({t \in d.transactions :
          t.user_id = user_id
          /\ Between(t.timestamp, isoformat(bs), isoformat(be))})

\* the sum over every row, whatever its type
RECURSIVE total_due_all(_)
total_due_all(rows) ==
  IF rows = <<>> THEN 0 ELSE Head(rows).amount + total_due_all(Tail(rows))

\* sum(t[0] for t in transactions if t[1] == 'debit')
RECURSIVE total_due(_)
total_due(rows) ==
  IF rows = <<>> THEN 0
  ELSE (IF Head(rows).type = "debit" THEN Head(rows).amount ELSE 0)
         + total_due(Tail(rows))

NoStmt == [user |-> 0]

export_pdf(d, user, today) ==
  LET bs == bill_start(today)
      be == bill_end(bs)
      rows == period_transactions(d, user.id, bs, be)
  IN [user |-> user.id, today |-> today, bill_start |-> bs, bill_end |-> be,
      due_date |-> due_date(bs), transactions |-> rows,
      total_due |-> total_due(rows)]

\* ------------------------------------------------------------------ clock
\* the clock reading on the given date, tick microseconds after midnight
At(date, tick) ==
  [year |-> date.year, month |-> date.month, day |-> date.day,
   second |-> tick \div 1000000, microsecond |-> tick % 1000000]

Instants == {At(date, tick) : date \in ClockDates, tick \in 0..MaxTick}

AllDates ==
  {date \in [year : FirstYear..LastYear, month : 1..12, day : 1..31] :
     date.day <= DaysInMonth(date.year, date.month)}

AllInstants == {At(date, tick) : date \in AllDates, tick \in 0..MaxTick}

Later(a, b) == ~TextLeq(isoformat(a), isoformat(b))

\* ---------------------------------------------------------- the script run
NoCall == [op |-> "none", user_id |-> 0, transaction_id |-> 0]

Call(name, user_id, transaction_id) ==
  [op |-> name, user_id |-> user_id, transaction_id |-> transaction_id]

\* every authenticated user given the admin tabs
is_admin_any(e, user) == user # NoUser

is_admin(e, user) == e = ADMIN_EMAIL /\ user # NoUser

\* The read-only part of a run with the credentials e, p over the database d:
\* nothing below "if email and password" is rendered without a successful
\* login; the admin picks any user in the View Statement and Export as PDF
\* tabs; any other user gets their own history and their own statement.
Render(e, p, d) ==
  LET user == authenticate_user(d, e, p)
  IN IF e = "" \/ p = "" \/ user = NoUser
       THEN viewed' = 0 /\ stmt' = NoStmt
     ELSE IF is_admin(e, user)
       THEN \E vs \in d.users, xs \in d.users :
               viewed' = vs.id /\ stmt' = export_pdf(d, xs, now)
     ELSE viewed' = user.id /\ stmt' = export_pdf(d, user, now)

LoggedIn == email # "" /\ password # "" /\ authenticate_user(db, email, password) # NoUser

AdminLoggedIn == LoggedIn /\ is_admin(email, authenticate_user(db, email, password))

\* the text inputs change (no button pressed)
SetCredentials(e, p) ==
  /\ <<e, p>> # <<email, password>>
  /\ email' = e /\ password' = p
  /\ Render(e, p, db)
  /\ UNCHANGED <<db, now, call>>

\* a run with no button pressed, e.g. after a selectbox change
Rerun ==
  /\ Render(email, password, db)
  /\ UNCHANGED <<db, email, password, now, call>>

\* admin tab "Add User", button pressed
AddUser(new_email, new_password) ==
  /\ AdminLoggedIn
  /\ db.user_seq < MaxUserId
  /\ db' = add_user(db, new_email, new_password)
  /\ call' = Call("add_user", 0, 0)
  /\ Render(email, password, db')
  /\ UNCHANGED <<email, password, now>>

\* admin tab "Delete User", button pressed; the selectbox lists every user
\* but the admin, and with nothing to select selected_user[0] raises and the
\* run stops there
DeleteUser ==
  /\ AdminLoggedIn
  /\ LET user_list == {u \in db.users : u.email # ADMIN_EMAIL}
     IN IF user_list = {}
          THEN db' = db /\ call' = call /\ viewed' = 0 /\ stmt' = NoStmt
          ELSE \E selected_user \in user_list :
                 /\ db' = delete_user(db, selected_user.id)
                 /\ call' = Call("delete_user", selected_user.id, 0)
                 /\ Render(email, password, db')
  /\ UNCHANGED <<email, password, now>>

\* admin tab "Add Transaction", button pressed
AddTransaction(amount, type_) ==
  /\ AdminLoggedIn
  /\ db.tx_seq < MaxTxId
  /\ \E selected_user \in db.users :
       /\ db' = add_transaction(db, selected_user.id, amount, type_, now)
       /\ call' = Call("add_transaction", selected_user.id, db.tx_seq + 1)
  /\ Render(email, password, db')
  /\ UNCHANGED <<email, password, now>>

\* admin tab "Delete Transaction", button pressed; the second selectbox lists
\* the selected user's transactions, and with nothing to select
\* trans_ids[selected] raises after the View Statement tab was rendered
DeleteTransaction ==
  /\ AdminLoggedIn
  /\ \E selected_user \in db.users :
       LET transactions == get_transactions(db, selected_user.id)
       IN IF transactions = {}
            THEN /\ db' = db /\ call' = call /\ stmt' = NoStmt
                 /\ \E vs \in db.users : viewed' = vs.id
            ELSE \E t \in transactions :
                   /\ db' = delete_transaction(db, selected_user.id, t.id)
                   /\ call' = Call("delete_transaction", selected_user.id, t.id)
                   /\ Render(email, password, db')
  /\ UNCHANGED <<email, password, now>>

\* UPDATE users SET password = ? WHERE email = ?
update_password(d, e, new_password) ==
  [d EXCEPT !.users =
     {IF u.email = e THEN [u EXCEPT !.password = new_password] ELSE u : u \in @}]

\* tab "Change Password" (both tab sets), button pressed; the tab comes
\* after the export tab
ChangePassword(current_password, new_password, confirm_password) ==
  /\ LoggedIn
  /\ LET user == authenticate_user(db, email, password)
     IN db' = IF current_password # user.password THEN db
              ELSE IF new_password # confirm_password THEN db
              ELSE IF new_password = "" THEN db
              ELSE update_password(db, email, new_password)
  /\ Render(email, password, db)
  /\ UNCHANGED <<email, password, now, call>>

\* the wall clock advances
Tick ==
  /\ \E t \in Instants : Later(t, now) /\ now' = t
  /\ UNCHANGED <<db, email, password, viewed, stmt, call>>

\* ------------------------------------------- direct calls of the helpers
UserIds == 1..MaxUserId
TxIds == 1..MaxTxId

CallAddUser(new_email, new_password) ==
  /\ db.user_seq < MaxUserId
  /\ db' = add_user(db, new_email, new_password)
  /\ call' = Call("add_user", 0, 0)
  /\ UNCHANGED <<email, password, now, viewed, stmt>>

CallDeleteUser(user_id) ==
  /\ db' = delete_user(db, user_id)
  /\ call' = Call("delete_user", user_id, 0)
  /\ UNCHANGED <<email, password, now, viewed, stmt>>

CallAddTransaction(user_id, amount, type_) ==
  /\ db.tx_seq < MaxTxId
  /\ db' = add_transaction(db, user_id, amount, type_, now)
  /\ call' = Call("add_transaction", user_id, db.tx_seq + 1)
  /\ UNCHANGED <<email, password, now, viewed, stmt>>

CallDeleteTransaction(user_id, transaction_id) ==
  /\ db' = delete_transaction(db, user_id, transaction_id)
  /\ call' = Call("delete_transaction", user_id, transaction_id)
  /\ UNCHANGED <<email, password, now, viewed, stmt>>

\* --------------------------------------------------------- specifications
\* The database the application is deployed with: nobody can log in, and so
\* nobody can add a user, unless the admin's row is already there.
InitDb ==
  [users |-> {[id |-> 1, email |-> ADMIN_EMAIL, password |-> "pw1"]},
   transactions |-> {}, user_seq |-> 1, tx_seq |-> 0]

InitAt(instants) ==
  /\ db = InitDb
  /\ email = "" /\ password = ""
  /\ now \in instants
  /\ viewed = 0 /\ stmt = NoStmt
  /\ call = NoCall

Credentials == (Emails \X Passwords) \cup {<<"", "">>}

\* the application: every tab of both tab sets, from the first instant of a
\* billing cycle on
Init == InitAt({At(CHOOSE d \in ClockDates : d.day = 13, 0)})

Next ==
  \/ \E c \in Credentials : SetCredentials(c[1], c[2])
  \/ Rerun
  \/ \E e \in Emails, p \in Passwords : AddUser(e, p)
  \/ DeleteUser
  \/ \E ty \in Types : AddTransaction(1, ty)
  \/ DeleteTransaction
  \/ Tick
  \/ \E c \in Passwords \cup {""}, n \in Passwords \cup {""}, f \in Passwords \cup {""} :
       ChangePassword(c, n, f)

Spec == Init /\ [][Next]_vars

\* the admin's session while the clock runs: statements over a ledger of
\* transactions stamped on either side of a cycle boundary
InitStmt == InitAt(Instants)

NextStmt ==
  \/ SetCredentials(ADMIN_EMAIL, "pw1")
  \/ AddUser("user@example.com", "pw1")
  \/ \E a \in Amounts, ty \in Types : AddTransaction(a, ty)
  \/ DeleteTransaction
  \/ Rerun
  \/ Tick

SpecStmt == InitStmt /\ [][NextStmt]_vars

\* the billing period of every clock reading of the years FirstYear..LastYear
InitPeriod == InitAt(AllInstants)

NextPeriod ==
  \/ \E c \in Credentials : SetCredentials(c[1], c[2])
  \/ Rerun

SpecPeriod == InitPeriod /\ [][NextPeriod]_vars

\* the helper functions called with arbitrary arguments
InitCall == InitAt({At(CHOOSE d \in ClockDates : d.day = 12, 0)})

NextCall ==
  \/ \E e \in Emails, p \in Passwords : CallAddUser(e, p)
  \/ \E u \in UserIds : CallDeleteUser(u)
  \/ \E u \in UserIds, a \in Amounts, ty \in Types : CallAddTransaction(u, a, ty)
  \/ \E u \in UserIds, t \in TxIds : CallDeleteTransaction(u, t)

SpecCall == InitCall /\ [][NextCall]_vars

\* ================================================================= claims
\* calendar arithmetic used to state the claims
Date(dt) == <<dt.year, dt.month, dt.day>>

DaysBeforeMonth == <<0, 31, 59, 90, 120, 151, 181, 212, 243, 273, 304, 334>>

\* the proleptic Gregorian day number of a date
Ordinal(dt) ==
  LET y == dt.year - 1
  IN y * 365 + (y \div 4) - (y \div 100) + (y \div 400)
       + DaysBeforeMonth[dt.month]
       + (IF dt.month > 2 /\ IsLeap(dt.year) THEN 1 ELSE 0)
       + dt.day

\* a is chronologically before b
Before(a, b) ==
  \/ Ordinal(a) < Ordinal(b)
  \/ Ordinal(a) = Ordinal(b) /\ a.second < b.second
  \/ Ordinal(a) = Ordinal(b) /\ a.second = b.second /\ a.microsecond < b.microsecond

\* C1: the billing period starts on a 13th: the 13th of today's month and
\* year when today.day >= 13, otherwise the 13th of the previous month,
\* which is December of the previous year when today is in January.
C1_PeriodStart ==
  stmt # NoStmt =>
    LET t == stmt.today
        s == stmt.bill_start
    IN /\ s.day = 13
       /\ (t.day >= 13 => s.month = t.month /\ s.year = t.year)
       /\ (t.day < 13 /\ t.month > 1 => s.month = t.month - 1 /\ s.year = t.year)
       /\ (t.day < 13 /\ t.month = 1 => s.month = 12 /\ s.year = t.year - 1)

C1_Witness == stmt # NoStmt /\ stmt.today.month = 1 /\ stmt.today.day = 12

\* C2: the billing period ends on the 12th of the month after the start
\* month, in the start's year unless the start month is December, and then
\* on the 12th of January of the next year.
C2_PeriodEnd ==
  stmt # NoStmt =>
    LET s == stmt.bill_start
        e == stmt.bill_end
    IN /\ e.day = 12
       /\ (s.month < 12 => e.month = s.month + 1 /\ e.year = s.year)
       /\ (s.month = 12 => e.month = 1 /\ e.year = s.year + 1)

C2_Witness == stmt # NoStmt /\ stmt.bill_start.month = 12 /\ stmt.today.month = 12

\* C3 as stated: for today = 2024-12-20 the window is 2024-12-13 ..
\* 2025-01-12 and the due date is 2025-01-31.
C3_Original ==
  (stmt # NoStmt /\ Date(stmt.today) = <<2024, 12, 20>>) =>
    /\ Date(stmt.bill_start) = <<2024, 12, 13>>
    /\ Date(stmt.bill_end) = <<2025, 1, 12>>
    /\ Date(stmt.due_date) = <<2025, 1, 31>>

\* C3 amended: for today = 2024-12-20 the window is 2024-12-13 ..
\* 2025-01-12 and the due date, 50 days after the start, is 2025-02-01.
C3_Scenario ==
  (stmt # NoStmt /\ Date(stmt.today) = <<2024, 12, 20>>) =>
    /\ Date(stmt.bill_start) = <<2024, 12, 13>>
    /\ Date(stmt.bill_end) = <<2025, 1, 12>>
    /\ Date(stmt.due_date) = <<2025, 2, 1>>

C3_Witness == stmt # NoStmt /\ Date(stmt.today) = <<2024, 12, 20>>

\* C4: the due date is the period start plus 50 calendar days, and
\* start <= end < due date.
C4_DueDate ==
  stmt # NoStmt =>
    /\ Ordinal(stmt.due_date) - Ordinal(stmt.bill_start) = 50
    /\ stmt.due_date.second = stmt.bill_start.second
    /\ stmt.due_date.microsecond = stmt.bill_start.microsecond
    /\ stmt.due_date.day <= DaysInMonth(stmt.due_date.year, stmt.due_date.month)
    /\ ~Before(stmt.bill_end, stmt.bill_start)
    /\ Before(stmt.bill_end, stmt.due_date)

C4_Witness ==
  /\ stmt # NoStmt
  /\ stmt.bill_start.month = 2 /\ IsLeap(stmt.bill_start.year)
  /\ stmt.today.microsecond > 0

\* the date part of a stored timestamp
TextDate(ts) == <<ts[1], ts[2], ts[3]>>

DateLeq(a, b) == a[1] * 10000 + a[2] * 100 + a[3] <= b[1] * 10000 + b[2] * 100 + b[3]

\* the user's transactions stamped on a day of the statement's period
InPeriodDays(s, user_id) ==
  {t \in db.transactions :
     /\ t.user_id = user_id
     /\ DateLeq(Date(s.bill_start), TextDate(t.timestamp))
     /\ DateLeq(TextDate(t.timestamp), Date(s.bill_end))}

\* C5: the line items are exactly the selected user's transactions stamped
\* on a day from the period-start date through the period-end date, whatever
\* the time of day of the transaction and of the statement.
C5_DayGranularity ==
  stmt # NoStmt => stmt.transactions = Rows(InPeriodDays(stmt, stmt.user))

RECURSIVE SumOver(_, _)
SumOver(rows, I) ==
  IF I = {} THEN 0
  ELSE LET i == CHOOSE j \in I : TRUE
       IN rows[i].amount + SumOver(rows, I \ {i})

OfType(rows, ty) == {i \in DOMAIN rows : rows[i].type = ty}

\* C6: total_due is the sum of the amounts of the debit line items; credit
\* line items are listed without changing it, every line item lies in the
\* period, and a user with no transaction in the period gets no line item
\* and total_due = 0.
C6_TotalDue ==
  stmt # NoStmt =>
    LET rows == stmt.transactions
    IN /\ stmt.total_due = SumOver(rows, OfType(rows, "debit"))
       /\ stmt.total_due + SumOver(rows, OfType(rows, "credit"))
            = SumOver(rows, DOMAIN rows)
       /\ \A i \in DOMAIN rows :
            /\ DateLeq(Date(stmt.bill_start), TextDate(rows[i].timestamp))
            /\ DateLeq(TextDate(rows[i].timestamp), Date(stmt.bill_end))
       /\ (InPeriodDays(stmt, stmt.user) = {} => rows = <<>> /\ stmt.total_due = 0)

C6_Witness ==
  /\ stmt # NoStmt
  /\ \E i \in DOMAIN stmt.transactions, j \in DOMAIN stmt.transactions :
       /\ stmt.transactions[i].type = "credit"
       /\ stmt.transactions[j].type = "debit"
       /\ stmt.total_due = stmt.transactions[j].amount

\* C7: two statements generated one after the other for the same user on
\* the same today date, with no write to the store in between, have the same
\* period, the same line items and the same total_due.
C7_Idempotent ==
  [][ ( /\ stmt # NoStmt /\ stmt' # NoStmt
        /\ stmt'.user = stmt.user
        /\ Date(stmt'.today) = Date(stmt.today)
        /\ db' = db )
      => /\ Date(stmt'.bill_start) = Date(stmt.bill_start)
         /\ Date(stmt'.bill_end) = Date(stmt.bill_end)
         /\ Date(stmt'.due_date) = Date(stmt.due_date)
         /\ stmt'.transactions = stmt.transactions
         /\ stmt'.total_due = stmt.total_due ]_vars

Ids(U) == {u.id : u \in U}

\* C8: every stored transaction's user_id is the id of a stored user; a
\* transaction is only created for an existing user; a step that deletes a
\* user removes that user and exactly that user's transactions.
C8_Referential ==
  /\ [](\A t \in db.transactions : t.user_id \in Ids(db.users))
  /\ [][ /\ \A t \in db'.transactions \ db.transactions : t.user_id \in Ids(db.users)
         /\ (~(Ids(db.users) \subseteq Ids(db'.users)) =>
               \E uid \in Ids(db.users) :
                 /\ db'.users = {u \in db.users : u.id # uid}
                 /\ db'.transactions = {t \in db.transactions : t.user_id # uid}) ]_vars

C8_Witness ==
  /\ call.op = "delete_user"
  /\ call.user_id \notin Ids(db.users)
  /\ db.transactions # {}
  /\ Cardinality(db.transactions) < db.tx_seq

\* C9: delete_transaction(user_id, transaction_id) removes the transaction
\* with that id when it belongs to user_id and nothing otherwise; it removes
\* at most one transaction and leaves the users alone.
C9_DeleteTransaction ==
  [][ call'.op = "delete_transaction" =>
        LET owned == {t \in db.transactions :
                        t.id = call'.transaction_id /\ t.user_id = call'.user_id}
        IN /\ db'.users = db.users
           /\ db'.transactions = db.transactions \ owned
           /\ Cardinality(owned) <= 1
           /\ (owned = {} => db'.transactions = db.transactions) ]_vars

C9_Witness ==
  /\ call.op = "delete_transaction"
  /\ \E t \in db.transactions :
       t.id = call.transaction_id /\ t.user_id # call.user_id

\* C10: rows are added to or deleted from the tables only in a run that
\* authenticated with ADMIN_EMAIL; a run that did not authenticate changes
\* nothing; a run authenticated as another user changes at most that user's
\* password, and the page under a non-admin email shows only the history
\* and the statement of the user with that email.
C10_Authorisation ==
  /\ [](email # ADMIN_EMAIL =>
          /\ (stmt # NoStmt => \E u \in db.users : u.email = email /\ u.id = stmt.user)
          /\ (viewed # 0 => \E u \in db.users : u.email = email /\ u.id = viewed))
  /\ [][ LET me == authenticate_user(db, email', password')
             authed == email' # "" /\ password' # "" /\ me # NoUser
         IN /\ ( \/ Ids(db'.users) # Ids(db.users)
                 \/ db'.transactions # db.transactions
                 \/ db'.user_seq # db.user_seq
                 \/ db'.tx_seq # db.tx_seq ) => (authed /\ email' = ADMIN_EMAIL)
            /\ (~authed => db' = db)
            /\ (authed => \A u \in db.users : u.id # me.id => u \in db'.users \/ email' = ADMIN_EMAIL)
            /\ \A u \in db.users :
                 (u \notin db'.users /\ u.id \in Ids(db'.users)) => (authed /\ u.id = me.id) ]_vars

C10_Witness ==
  /\ LoggedIn /\ email # ADMIN_EMAIL
  /\ stmt # NoStmt /\ viewed # 0
  /\ \E t \in db.transactions : t.user_id # stmt.user
  /\ \E t \in db.transactions : t.user_id = stmt.user

====
